---- MODULE Spec2Model ----
(***************************************************************************)
(* Model of scripts/aad_analyzer.py: the four-stage report/export run over *)
(* the AAD SQLite database (inspect_database, load_data, example_queries,  *)
(* export_to_csv) together with the pandas/sqlite3 operations each stage   *)
(* relies on.                                                              *)
(*                                                                         *)
(* Text is a sequence of character tokens: "SP" space, "LF" line feed,     *)
(* "CR" carriage return, "US" underscore, "SL" slash, digits "0".."9" and  *)
(* ordinary letters/words.                                                 *)
(***************************************************************************)
EXTENDS Integers, Sequences, FiniteSets, TLC

VARIABLES
    dbExists,    \* DB_PATH.exists()
    db,          \* the database: its tables in sqlite_master order
    pc,          \* position of the run in __main__ and the stage functions
    run,         \* number of the current invocation of the script
    clock,       \* wall clock in seconds, as datetime.now() reports it
    conns,       \* connections sqlite3.connect() has returned in this run
    log,         \* entries this run has appended to LOG_FILE
    console,     \* lines this run has printed
    dataframes,  \* the dict load_data builds and returns
    files,       \* the exports directory: file name -> contents
    written,     \* this run's to_csv calls: [table, file, content], in order
    earlier,     \* the to_csv calls of the previous run
    events,      \* stage starts and finishes of this run, in order
    i,           \* loop position over the tables of the running stage
    q            \* number of the aggregate query example_queries is at

vars == <<dbExists, db, pc, run, clock, conns, log, console, dataframes,
          files, written, earlier, events, i, q>>

----------------------------------------------------------------------------
(* Bounds of the model *)

MaxLen == 3
MaxRows == 2
MaxYearRows == 3
MaxClock == 1
MaxRuns == 2

----------------------------------------------------------------------------
(* Values *)

Str(s) == [kind |-> "str", s |-> s, n |-> 0]
IntV(k) == [kind |-> "int", s |-> <<>>, n |-> k]
FloatV(k) == [kind |-> "float", s |-> <<>>, n |-> k]
Null == [kind |-> "null", s |-> <<>>, n |-> 0]
Bytes == [kind |-> "bytes", s |-> <<>>, n |-> 0]

RECURSIVE SeqsUpTo(_, _)
SeqsUpTo(S, k) ==
    IF k = 0 THEN {<<>>}
    ELSE LET shorter == SeqsUpTo(S, k - 1)
         IN  shorter \cup {Append(s, c) : s \in shorter, c \in S}

Whitespace == {"SP", "LF", "CR"}
Digits == {"0", "1", "2", "3", "4", "5", "6", "7", "8", "9"}

\* str.replace(old, new) for single characters
StrReplace(s, old, new) ==
    [k \in 1..Len(s) |-> IF s[k] = old THEN new ELSE s[k]]

\* str.strip(): drops leading and trailing whitespace
Strip(s) ==
    LET keep == {k \in 1..Len(s) : s[k] \notin Whitespace}
    IN  IF keep = {} THEN <<>>
        ELSE LET a == CHOOSE k \in keep : \A m \in keep : k <= m
                 b == CHOOSE k \in keep : \A m \in keep : k >= m
             IN  SubSeq(s, a, b)

----------------------------------------------------------------------------
(* pandas: read_sql_query, column dtypes and the .str accessor *)

NonNull(cells) == {k \in 1..Len(cells) : cells[k].kind # "null"}

\* dtype pandas gives a column of a query result
DType(cells) ==
    IF NonNull(cells) = {} THEN "object"
    ELSE IF \A k \in NonNull(cells) : cells[k].kind = "int"
         THEN IF NonNull(cells) = 1..Len(cells) THEN "int64" ELSE "float64"
         ELSE "object"

\* the values of a query-result column: integers of a column that also
\* holds NULL arrive as floats
Column(cells) ==
    IF DType(cells) = "float64"
    THEN [k \in 1..Len(cells) |->
             IF cells[k].kind = "int" THEN FloatV(cells[k].n) ELSE Null]
    ELSE cells

\* pd.read_sql_query('SELECT * FROM "<table>"'): the DataFrame of a table
ReadTable(t) ==
    [c \in 1..Len(t.cols) |->
        [cname |-> t.cols[c].cname,
         dtype |-> DType(t.cols[c].cells),
         vals  |-> Column(t.cols[c].cells)]]

\* an object column all of whose non-null values are bytes: the .str
\* methods used here refuse it (inferred dtype 'bytes')
InferredBytes(vals) ==
    /\ NonNull(vals) # {}
    /\ \A k \in NonNull(vals) : vals[k].kind = "bytes"

\* Series.str.replace and Series.str.strip: applied to the strings, NaN for
\* every other element
SeriesReplace(vals, old, new) ==
    [k \in 1..Len(vals) |->
        IF vals[k].kind = "str" THEN Str(StrReplace(vals[k].s, old, new)) ELSE Null]
SeriesStrip(vals) ==
    [k \in 1..Len(vals) |->
        IF vals[k].kind = "str" THEN Str(Strip(vals[k].s)) ELSE Null]

----------------------------------------------------------------------------
(* export_to_csv: cleaning of a table and the name of its file *)

\* df[col].str.replace('\n', ' ').str.replace('\r', ' ').str.strip()
CleanSeriesNoCR(vals) == SeriesStrip(SeriesReplace(vals, "LF", "SP"))
CleanSeries(vals) ==
    SeriesStrip(SeriesReplace(SeriesReplace(vals, "LF", "SP"), "CR", "SP"))

\* the loop over df.columns: object columns are replaced by their cleaned
\* series, every other column is left as read
CleanFrame(df) ==
    [c \in 1..Len(df) |->
        IF df[c].dtype = "object"
        THEN [df[c] EXCEPT !.vals = CleanSeries(df[c].vals)]
        ELSE df[c]]

\* the cleaning raises when .str.replace meets an all-bytes object column
CleanRaises(df) ==
    \E c \in 1..Len(df) : df[c].dtype = "object" /\ InferredBytes(df[c].vals)

\* f"AAD_{table_name.replace(' ', '_')}_{now:%Y%m%d_%H%M%S}.csv"; the
\* timestamp has a fixed width, so two names are the same string exactly
\* when their stems and their timestamps are
CsvFilename(name, now) ==
    [stem |-> <<"AAD", "US">> \o StrReplace(name, "SP", "US"), ts |-> now]

\* df.to_csv(csv_path) raises when the parent directory of csv_path does
\* not exist, which a "/" in the file name brings about
ToCsvRaises(name) == \E k \in 1..Len(name) : name[k] = "SL"

\* df.to_csv(csv_path, index=False): the file is created or truncated and
\* holds the frame
ToCsvAppend(dir, fname, df) ==
    [f \in DOMAIN dir \cup {fname} |->
        IF f = fname
        THEN IF fname \in DOMAIN dir THEN dir[fname] \o df ELSE df
        ELSE dir[f]]
ToCsv(dir, fname, df) ==
    [f \in DOMAIN dir \cup {fname} |-> IF f = fname THEN df ELSE dir[f]]

----------------------------------------------------------------------------
(* example_queries: the count-by-year report *)

MainTable == <<"Automotive", "SP", "Security", "SP", "Attacks">>

HasTable(d, name) == \E k \in 1..Len(d) : d[k].name = name
TableNamed(d, name) == d[CHOOSE k \in 1..Len(d) : d[k].name = name]
HasColumn(t, cname) == \E c \in 1..Len(t.cols) : t.cols[c].cname = cname
ColumnNamed(t, cname) ==
    t.cols[CHOOSE c \in 1..Len(t.cols) : t.cols[c].cname = cname].cells

\* SELECT Year, COUNT(*) as Count FROM ... GROUP BY Year: one row per
\* distinct Year value (NULL is one group), here in order of first
\* occurrence; the order of these rows does not reach the report
RECURSIVE GroupCount(_, _)
GroupCount(cells, k) ==
    IF k > Len(cells) THEN <<>>
    ELSE IF \E m \in 1..(k - 1) : cells[m] = cells[k]
         THEN GroupCount(cells, k + 1)
         ELSE <<[Year  |-> cells[k],
                 Count |-> Cardinality({m \in 1..Len(cells) : cells[m] = cells[k]})]>>
              \o GroupCount(cells, k + 1)

\* Series.str.extract(r'(\d{4})', expand=False) on one string: the first
\* run of four digits, NaN when there is none
Extract(s) ==
    LET hits == {k \in 1..(Len(s) - 3) : \A m \in k..(k + 3) : s[m] \in Digits}
    IN  IF hits = {} THEN Null
        ELSE LET a == CHOOSE k \in hits : \A m \in hits : k <= m
             IN  Str(SubSeq(s, a, a + 3))

ExtractYear(v) == IF v.kind = "str" THEN Extract(v.s) ELSE Null

\* the .str accessor raises on a Year column that is not of object dtype
\* and str.extract refuses an all-bytes one
YearRaises(cells) == DType(cells) # "object" \/ InferredBytes(cells)

DigitVal(c) ==
    CASE c = "0" -> 0 [] c = "1" -> 1 [] c = "2" -> 2 [] c = "3" -> 3
      [] c = "4" -> 4 [] c = "5" -> 5 [] c = "6" -> 6 [] c = "7" -> 7
      [] c = "8" -> 8 [] c = "9" -> 9
YearNum(s) ==
    ((DigitVal(s[1]) * 10 + DigitVal(s[2])) * 10 + DigitVal(s[3])) * 10
    + DigitVal(s[4])

RECURSIVE SumCounts(_, _)
SumCounts(rows, k) ==
    IF k > Len(rows) THEN 0 ELSE rows[k].Count + SumCounts(rows, k + 1)

RECURSIVE SortedYears(_)
SortedYears(ys) ==
    IF ys = {} THEN <<>>
    ELSE LET y == CHOOSE a \in ys : \A b \in ys : YearNum(a.s) <= YearNum(b.s)
         IN  <<y>> \o SortedYears(ys \ {y})

\* df.groupby('Year', as_index=False)['Count'].sum().sort_values('Year'):
\* one row per distinct key, rows whose key is NaN are dropped
GroupBySum(rows) ==
    LET keys == {rows[k].Year : k \in {m \in 1..Len(rows) : rows[m].Year.kind # "null"}}
        order == SortedYears(keys)
    IN  [k \in 1..Len(order) |->
            [Year  |-> order[k],
             Count |-> SumCounts(SelectSeq(rows, LAMBDA r : r.Year = order[k]), 1)]]

\* lines 109-115: the query result with Year replaced by the extracted
\* year, grouped again
ByYearReport(cells) ==
    LET sql == GroupCount(cells, 1)
        cleaned == [k \in 1..Len(sql) |-> [sql[k] EXCEPT !.Year = ExtractYear(sql[k].Year)]]
    IN  GroupBySum(cleaned)

----------------------------------------------------------------------------
(* The databases a run is started on *)

Table(name, cells) == [name |-> name, cols |-> <<[cname |-> "txt", cells |-> cells]>>]

Chars == {"a", "SP", "LF", "CR"}
Cells == {Str(s) : s \in SeqsUpTo(Chars, MaxLen)} \cup {IntV(7), Null, Bytes}
Companions == {Str(<<"a">>), IntV(7), Null, Bytes}

\* one table with one column: every cell value, alone and next to cells of
\* every kind
CellDBs ==
    {<<Table(<<"t">>, <<c>> \o rest)>> :
        c \in Cells, rest \in SeqsUpTo(Companions, MaxRows - 1)}

YearCells ==
    {Str(<<"2", "0", "1", "5">>), Str(<<"2", "0", "1", "5", "SL", "1", "6">>),
     Str(<<"c", "2", "0", "1", "6">>), Str(<<"2", "0", "1">>), Str(<<"a">>),
     Null, IntV(2015)}

Attacks(years) ==
    [name |-> MainTable,
     cols |-> <<[cname |-> "Year", cells |-> years],
                [cname |-> "Attack Type", cells |-> [k \in 1..Len(years) |-> Str(<<"a">>)]],
                [cname |-> "Violated Security Property",
                 cells |-> [k \in 1..Len(years) |-> Str(<<"a">>)]]>>]

\* the main table with every Year column
YearDBs == {<<Attacks(years)>> : years \in SeqsUpTo(YearCells, MaxYearRows)}

\* databases of several tables: names that differ in space/underscore only,
\* a BLOB column, a "/" in a name, a main table without a Year column
TableDBs ==
    {<<>>,
     <<Table(<<"a", "SP", "b">>, <<Str(<<"a">>)>>),
       Table(<<"a", "US", "b">>, <<Str(<<"a", "LF", "a">>)>>)>>,
     <<Table(<<"a", "SP", "b">>, <<Str(<<"SP", "a">>)>>),
       Table(<<"blob">>, <<Bytes, Null>>),
       Table(<<"c">>, <<IntV(7), Null>>)>>,
     <<Table(<<"c">>, <<Str(<<"a", "CR">>), IntV(7)>>),
       Table(<<"a", "SL", "b">>, <<Str(<<"a">>)>>),
       Table(<<"a", "US", "b">>, <<>>)>>,
     <<Table(MainTable, <<Str(<<"a">>)>>), Table(<<"c">>, <<Null>>)>>,
     <<Table(<<"c">>, <<Str(<<"a">>)>>), Attacks(<<Str(<<"2", "0", "1", "5">>)>>)>>,
     <<Attacks(<<IntV(2015), IntV(2016)>>)>>}

DBs == CellDBs \cup YearDBs \cup TableDBs

----------------------------------------------------------------------------
(* The run *)

Entry(tag, about) == [tag |-> tag, about |-> about]

Banner(title) == <<Entry("rule", <<>>), Entry(title, <<>>), Entry("rule", <<>>)>>

\* sqlite3.connect(DB_PATH): the default mode, read-write and create
Connect(stage) == [stage |-> stage, mode |-> "rwc", open |-> TRUE, stmts |-> {}]

\* the statements the stage executes on its connection
Execute(cs, kinds) == [cs EXCEPT ![Len(cs)].stmts = @ \cup kinds]

\* conn.close() on the connection the stage opened
CloseNothing(cs) == cs
Close(cs) == [cs EXCEPT ![Len(cs)].open = FALSE]

\* lines 198-205: the branch on DB_PATH.exists()
MainBranchAlways(exists) == "inspect"
MainBranch(exists) == IF exists THEN "inspect" ELSE "notfound"

\* lines 199-203: what __main__ calls when a stage has returned
StageAfterSwapped(stage) ==
    CASE stage = "inspect" -> "queries"
      [] stage = "queries" -> "load"
      [] stage = "load" -> "export"
      [] stage = "export" -> "complete"
StageAfter(stage) ==
    CASE stage = "inspect" -> "load"
      [] stage = "load" -> "queries"
      [] stage = "queries" -> "export"
      [] stage = "export" -> "complete"

Init ==
    /\ dbExists \in BOOLEAN
    /\ db \in IF dbExists THEN DBs ELSE {<<>>}
    /\ pc = "main"
    /\ run = 1
    /\ clock = 0
    /\ conns = <<>>
    /\ log = <<>>
    /\ console = <<>>
    /\ dataframes = <<>>
    /\ files = <<>>
    /\ written = <<>>
    /\ earlier = <<>>
    /\ events = <<>>
    /\ i = 1
    /\ q = 1

\* lines 193-198 and 204-205
Main ==
    /\ pc = "main"
    /\ LET shown == console \o <<"Database path", "Database exists", "Log file">>
       IN  IF MainBranch(dbExists) = "inspect"
           THEN /\ console' = shown
                /\ pc' = "inspect"
           ELSE /\ console' = Append(shown, "ERROR: Database file not found!")
                /\ pc' = "done"
    /\ UNCHANGED <<dbExists, db, run, clock, conns, log, dataframes, files,
                   written, earlier, events, i, q>>

\* inspect_database, lines 29-40; an error of the first query is not caught
InspectBegin ==
    /\ pc = "inspect"
    /\ events' = Append(events, <<"start", "inspect">>)
    /\ conns' = Execute(Append(conns, Connect("inspect")), {"SELECT"})
    /\ \E io \in BOOLEAN :
        IF io
        THEN /\ log' = log \o Banner("INSPECTING DATABASE STRUCTURE")
             /\ pc' = "crashed"
             /\ i' = i
        ELSE /\ log' = log \o Banner("INSPECTING DATABASE STRUCTURE")
                       \o <<Entry("Found", Len(db))>>
             /\ pc' = "inspect_loop"
             /\ i' = 1
    /\ UNCHANGED <<dbExists, db, run, clock, console, dataframes, files,
                   written, earlier, q>>

\* inspect_database, lines 42-58: one table
InspectTable ==
    /\ pc = "inspect_loop"
    /\ i <= Len(db)
    /\ conns' = Execute(conns, {"PRAGMA table_info", "SELECT"})
    /\ \E io \in BOOLEAN :
        LET t == db[i]
            head == <<Entry("Table", t.name), Entry("dashes", <<>>)>>
        IN  IF io
            THEN /\ log' = log \o head
                 /\ pc' = "crashed"
                 /\ i' = i
            ELSE /\ log' = log \o head
                           \o [c \in 1..Len(t.cols) |-> Entry("column", t.cols[c].cname)]
                           \o <<Entry("Total rows", Len(t.cols[1].cells))>>
                 /\ pc' = pc
                 /\ i' = i + 1
    /\ UNCHANGED <<dbExists, db, run, clock, console, dataframes, files,
                   written, earlier, events, q>>

\* inspect_database, line 60, and the return to __main__
InspectEnd ==
    /\ pc = "inspect_loop"
    /\ i > Len(db)
    /\ conns' = Close(conns)
    /\ events' = Append(events, <<"finish", "inspect">>)
    /\ pc' = StageAfter("inspect")
    /\ UNCHANGED <<dbExists, db, run, clock, log, console, dataframes, files,
                   written, earlier, i, q>>

\* load_data, lines 65-76
LoadBegin ==
    /\ pc = "load"
    /\ events' = Append(events, <<"start", "load">>)
    /\ conns' = Execute(Append(conns, Connect("load")), {"SELECT"})
    /\ log' = log \o Banner("LOADING DATA INTO PANDAS")
    /\ \E io \in BOOLEAN :
        IF io
        THEN /\ pc' = "crashed"
             /\ UNCHANGED <<dataframes, i>>
        ELSE /\ pc' = "load_loop"
             /\ dataframes' = <<>>
             /\ i' = 1
    /\ UNCHANGED <<dbExists, db, run, clock, console, files, written, earlier, q>>

\* load_data, lines 78-85: one table
LoadTable ==
    /\ pc = "load_loop"
    /\ i <= Len(db)
    /\ conns' = Execute(conns, {"SELECT"})
    /\ \E io \in BOOLEAN :
        LET t == db[i]
            df == ReadTable(t)
        IN  IF io
            THEN /\ pc' = "crashed"
                 /\ UNCHANGED <<dataframes, log, i>>
            ELSE /\ dataframes' = [n \in DOMAIN dataframes \cup {t.name} |->
                                      IF n = t.name THEN df ELSE dataframes[n]]
                 /\ log' = log \o <<Entry("Table", t.name),
                                    Entry("Shape", <<Len(t.cols[1].cells), Len(df)>>),
                                    Entry("Columns", [c \in 1..Len(df) |-> df[c].cname]),
                                    Entry("head", df),
                                    Entry("", <<>>)>>
                 /\ pc' = pc
                 /\ i' = i + 1
    /\ UNCHANGED <<dbExists, db, run, clock, console, files, written, earlier,
                   events, q>>

\* load_data, lines 87-88, and the return to __main__
LoadEnd ==
    /\ pc = "load_loop"
    /\ i > Len(db)
    /\ conns' = Close(conns)
    /\ events' = Append(events, <<"finish", "load">>)
    /\ pc' = StageAfter("load")
    /\ UNCHANGED <<dbExists, db, run, clock, log, console, dataframes, files,
                   written, earlier, i, q>>

\* whether aggregate query k raises on database d: query 1 needs the main
\* table, query 2 names the column Year bare and applies .str to it;
\* SQLite reads the double-quoted column names of queries 3 and 4 as string
\* literals when the table has no such column
QueryRaises(d, k) ==
    \/ ~HasTable(d, MainTable)
    \/ /\ k = 2
       /\ \/ ~HasColumn(TableNamed(d, MainTable), "Year")
          \/ YearRaises(ColumnNamed(TableNamed(d, MainTable), "Year"))

\* what query k appends to the log before it can raise
QueryHead(k) ==
    CASE k = 1 -> <<>>
      [] k = 2 -> Banner("Attacks by Year:")
      [] k = 3 -> Banner("Top 10 Attack Types:")
      [] k = 4 -> Banner("Security Properties Violated:")

\* what query k appends to the log when it has not raised
QueryResult(d, k) ==
    LET t == TableNamed(d, MainTable)
        rows == Len(t.cols[1].cells)
    IN  CASE k = 1 -> <<Entry("First 5 attacks:", <<>>), Entry("sample", rows)>>
          [] k = 2 -> <<Entry("by_year", ByYearReport(ColumnNamed(t, "Year")))>>
          [] k = 3 -> <<Entry("types", rows)>>
          [] k = 4 -> <<Entry("properties", rows)>>

\* the try block of lines 99-139: where example_queries goes after query k
AfterQueryUncaught(k, raised) ==
    IF raised THEN "crashed" ELSE IF k = 4 THEN "queries_close" ELSE "query"
AfterQuery(k, raised) ==
    IF raised \/ k = 4 THEN "queries_close" ELSE "query"

\* example_queries, lines 93-97
QueriesBegin ==
    /\ pc = "queries"
    /\ events' = Append(events, <<"start", "queries">>)
    /\ conns' = Append(conns, Connect("queries"))
    /\ log' = log \o Banner("EXAMPLE QUERIES")
    /\ q' = 1
    /\ pc' = "query"
    /\ UNCHANGED <<dbExists, db, run, clock, console, dataframes, files,
                   written, earlier, i>>

\* example_queries, lines 99-139: one of the four queries
Query ==
    /\ pc = "query"
    /\ conns' = Execute(conns, {"SELECT"})
    /\ \E io \in BOOLEAN :
        LET raised == io \/ QueryRaises(db, q)
        IN  /\ log' = IF raised
                      THEN log \o QueryHead(q) \o <<Entry("Query error", q)>>
                      ELSE log \o QueryHead(q) \o QueryResult(db, q)
            /\ q' = IF raised THEN q ELSE q + 1
            /\ pc' = AfterQuery(q, raised)
    /\ UNCHANGED <<dbExists, db, run, clock, console, dataframes, files,
                   written, earlier, events, i>>

\* example_queries, line 141, and the return to __main__
QueriesEnd ==
    /\ pc = "queries_close"
    /\ conns' = Close(conns)
    /\ events' = Append(events, <<"finish", "queries">>)
    /\ pc' = StageAfter("queries")
    /\ UNCHANGED <<dbExists, db, run, clock, log, console, dataframes, files,
                   written, earlier, i, q>>

\* the try block of lines 156-188: where export_to_csv goes after table k
AfterExportContinue(k, raised) == [pc |-> "export_loop", i |-> k + 1]
AfterExport(k, raised) ==
    IF raised THEN [pc |-> "export_close", i |-> k]
    ELSE [pc |-> "export_loop", i |-> k + 1]

\* export_to_csv, lines 146-160
ExportBegin ==
    /\ pc = "export"
    /\ events' = Append(events, <<"start", "export">>)
    /\ conns' = Execute(Append(conns, Connect("export")), {"SELECT"})
    /\ \E io \in BOOLEAN :
        IF io
        THEN /\ log' = log \o Banner("EXPORTING DATA TO CSV")
                       \o <<Entry("Export error", 0)>>
             /\ console' = Append(console, "Export error")
             /\ pc' = "export_close"
             /\ i' = i
        ELSE /\ log' = log \o Banner("EXPORTING DATA TO CSV")
             /\ console' = console
             /\ pc' = "export_loop"
             /\ i' = 1
    /\ UNCHANGED <<dbExists, db, run, clock, dataframes, files, written,
                   earlier, q>>

\* export_to_csv, lines 162-181 and 186-188: one table
ExportTable ==
    /\ pc = "export_loop"
    /\ i <= Len(db)
    /\ conns' = Execute(conns, {"SELECT"})
    /\ \E io \in BOOLEAN :
        LET t == db[i]
            df == ReadTable(t)
            fname == CsvFilename(t.name, clock)
            raised == io \/ CleanRaises(df) \/ ToCsvRaises(t.name)
            after == AfterExport(i, raised)
        IN  /\ pc' = after.pc
            /\ i' = after.i
            /\ IF raised
               THEN /\ log' = Append(log, Entry("Export error", i))
                    /\ console' = Append(console, "Export error")
                    /\ UNCHANGED <<files, written>>
               ELSE /\ files' = ToCsv(files, fname, CleanFrame(df))
                    /\ written' = Append(written,
                                         [table |-> t.name, file |-> fname,
                                          content |-> files'[fname]])
                    /\ log' = log \o <<Entry("Exported", t.name),
                                       Entry("Rows", Len(t.cols[1].cells)),
                                       Entry("Columns", Len(df)),
                                       Entry("File", fname)>>
                    /\ console' = console
    /\ UNCHANGED <<dbExists, db, run, clock, dataframes, earlier, events, q>>

\* export_to_csv, lines 183-184
ExportDone ==
    /\ pc = "export_loop"
    /\ i > Len(db)
    /\ log' = Append(log, Entry("All exports complete", <<>>))
    /\ console' = Append(console, "CSV export complete")
    /\ pc' = "export_close"
    /\ UNCHANGED <<dbExists, db, run, clock, conns, dataframes, files, written,
                   earlier, events, i, q>>

\* export_to_csv, line 190, and the return to __main__
ExportEnd ==
    /\ pc = "export_close"
    /\ conns' = Close(conns)
    /\ events' = Append(events, <<"finish", "export">>)
    /\ pc' = StageAfter("export")
    /\ UNCHANGED <<dbExists, db, run, clock, log, console, dataframes, files,
                   written, earlier, i, q>>

\* line 203
Complete ==
    /\ pc = "complete"
    /\ console' = Append(console, "Analysis complete")
    /\ pc' = "done"
    /\ UNCHANGED <<dbExists, db, run, clock, conns, log, dataframes, files,
                   written, earlier, events, i, q>>

\* a second passes; datetime.now() is read at line 172 only
Tick ==
    /\ pc \in {"export_loop", "done", "crashed"}
    /\ clock < MaxClock
    /\ clock' = clock + 1
    /\ UNCHANGED <<dbExists, db, pc, run, conns, log, console, dataframes,
                   files, written, earlier, events, i, q>>

\* the script is invoked again on the same database; the exports directory
\* stays, everything in the process starts afresh
Restart ==
    /\ pc \in {"done", "crashed"}
    /\ run < MaxRuns
    /\ run' = run + 1
    /\ pc' = "main"
    /\ conns' = <<>>
    /\ log' = <<>>
    /\ console' = <<>>
    /\ dataframes' = <<>>
    /\ earlier' = written
    /\ written' = <<>>
    /\ events' = <<>>
    /\ i' = 1
    /\ q' = 1
    /\ UNCHANGED <<dbExists, db, clock, files>>

Next ==
    \/ Main
    \/ InspectBegin \/ InspectTable \/ InspectEnd
    \/ LoadBegin \/ LoadTable \/ LoadEnd
    \/ QueriesBegin \/ Query \/ QueriesEnd
    \/ ExportBegin \/ ExportTable \/ ExportDone \/ ExportEnd
    \/ Complete
    \/ Tick
    \/ Restart

Spec == Init /\ [][Next]_vars

\* the runs on the databases of several tables; a run never stops of its
\* own accord before "done" or "crashed"
TablesInit == Init /\ db \in TableDBs
FairSpec == TablesInit /\ [][Next]_vars /\ WF_vars(Next)

----------------------------------------------------------------------------
(* Properties *)

StageOrder == <<"inspect", "load", "queries", "export">>

StageEvents ==
    [k \in 1..(2 * Len(StageOrder)) |->
        IF k % 2 = 1 THEN <<"start", StageOrder[(k + 1) \div 2]>>
        ELSE <<"finish", StageOrder[k \div 2]>>]

Logged(tag) == {k \in 1..Len(log) : log[k].tag = tag}
Printed(line) == \E k \in 1..Len(console) : console[k] = line
HasBreak(s) == \E k \in 1..Len(s) : s[k] \in {"LF", "CR"}
SourceOf(w) == ReadTable(TableNamed(db, w.table))
SameValue(a, b) == a = b \/ (a.kind = "float" /\ b.kind = "int" /\ a.n = b.n)

\* C1: when the database file exists, the stages start in the order Schema
\* Inspector, Bulk Loader, Aggregate Reporter, CSV Exporter, each at most
\* once, each only after the stage before it has finished, and none is
\* entered again: the starts and finishes of a run are a prefix of
\* start/finish inspect, load, queries, export.
C1_StagesInOrder ==
    dbExists =>
        /\ Len(events) <= Len(StageEvents)
        /\ \A k \in 1..Len(events) : events[k] = StageEvents[k]

C1_Witness == dbExists /\ pc = "done" /\ events = StageEvents

\* C2 as stated: at most one connection is opened per run and it is opened
\* read-only.
C2_OneReadOnlyConnection ==
    /\ Len(conns) <= 1
    /\ \A k \in 1..Len(conns) : conns[k].mode = "ro"

\* C2 amended: every stage opens a connection of its own in sqlite3's
\* default read-write mode, in stage order and at most four per run; at most
\* one is open at a time, the connections of the stages before the running
\* one are closed, all are closed when the run is done, and only SELECT and
\* PRAGMA table_info statements are executed.
C2_ConnectionPerStage ==
    /\ Len(conns) <= Len(StageOrder)
    /\ Cardinality({k \in 1..Len(conns) : conns[k].open}) <= 1
    /\ \A k \in 1..Len(conns) :
        /\ conns[k].stage = StageOrder[k]
        /\ conns[k].mode = "rwc"
        /\ conns[k].stmts \subseteq {"SELECT", "PRAGMA table_info"}
        /\ k < Len(conns) => ~conns[k].open
    /\ pc = "done" => \A k \in 1..Len(conns) : ~conns[k].open

C2_Witness ==
    /\ pc = "done"
    /\ Len(conns) = Len(StageOrder)
    /\ \A k \in 1..Len(conns) : ~conns[k].open

\* C3: once export_to_csv has finished without an export error, the run has
\* written exactly one CSV file per table: as many files as tables, and no
\* two tables under the same file name.
C3_OneFilePerTable ==
    (Logged("All exports complete") # {}) =>
        /\ Len(written) = Len(db)
        /\ Cardinality({written[k].file : k \in 1..Len(written)}) = Len(db)

\* C4: no value of a text-typed (object) column in a CSV file written by
\* export_to_csv contains a line feed or a carriage return.
C4_NoLineBreaks ==
    \A f \in DOMAIN files :
        \A c \in 1..Len(files[f]) :
            files[f][c].dtype = "object" =>
                \A r \in 1..Len(files[f][c].vals) :
                    ~HasBreak(files[f][c].vals[r].s)

C4_Witness ==
    \E k \in 1..Len(written) :
        /\ written[k].file \in DOMAIN files
        /\ \E c \in 1..Len(written[k].content) :
            \E r \in 1..Len(written[k].content[c].vals) :
                /\ SourceOf(written[k])[c].vals[r] \in
                       {Str(<<"a", "LF", "a">>), Str(<<"a", "CR", "a">>)}
                /\ written[k].content[c].vals[r] = Str(<<"a", "SP", "a">>)

\* C5: export_to_csv changes nothing but line breaks: a cell of a non-text
\* column, and a cell of a text-typed column whose value in the database
\* has no line feed or carriage return, is written with the value it has in
\* the database.
C5_OnlyLineBreaksChange ==
    \A k \in 1..Len(written) :
        \A c \in 1..Len(written[k].content) :
            \A r \in 1..Len(written[k].content[c].vals) :
                LET src == SourceOf(written[k])[c]
                IN  (src.dtype # "object" \/ ~HasBreak(src.vals[r].s)) =>
                        SameValue(written[k].content[c].vals[r], src.vals[r])

QueryTags ==
    {"First 5 attacks:", "sample", "by_year", "types", "properties",
     "Attacks by Year:", "Top 10 Attack Types:", "Security Properties Violated:"}

C6_Caught ==
    (Logged("Query error") # {}) =>
        /\ Cardinality(Logged("Query error")) = 1
        /\ \A e \in Logged("Query error") :
            \A k \in (e + 1)..Len(log) : log[k].tag \notin QueryTags
        /\ pc \in {"queries_close", "export", "export_loop", "export_close",
                   "complete", "done"}
        /\ pc # "queries_close" => Len(conns) >= 3 /\ ~conns[3].open
        /\ pc = "done" =>
            /\ \E k \in 1..Len(events) : events[k] = <<"start", "export">>
            /\ Printed("Analysis complete")

\* C6: a failure of any of the four aggregate queries is caught and logged
\* as one 'Query error' entry, the queries after it are skipped, the
\* stage's connection is closed, and the run goes on to the CSV Exporter
\* and to the final 'Analysis complete' message.
C6_QueryErrorCaught ==
    /\ []C6_Caught
    /\ \A r \in 1..MaxRuns :
        (run = r /\ Logged("Query error") # {})
            ~> (run = r /\ pc = "done" /\ Printed("Analysis complete"))

C6_Witness ==
    /\ pc = "done"
    /\ \E e \in Logged("Query error") : log[e].about = 3
    /\ Logged("by_year") # {}
    /\ Printed("Analysis complete")

C8_ExportErrorCaught ==
    \A e \in Logged("Export error") :
        /\ Logged("Export error") = {e}
        /\ \A j \in 1..Len(db) :
            IF j < log[e].about
            THEN \E k \in 1..Len(written) :
                    /\ written[k].table = db[j].name
                    /\ written[k].file \in DOMAIN files
            ELSE \A k \in 1..Len(written) : written[k].table # db[j].name
        /\ Logged("All exports complete") = {}
        /\ pc \in {"export_close", "complete", "done"}
        /\ pc # "export_close" => Len(conns) = 4 /\ ~conns[4].open

C8_Witness ==
    /\ pc = "done"
    /\ \E e \in Logged("Export error") : log[e].about = 2
    /\ Len(written) = 1
    /\ Len(db) = 3

\* C9: in the count-by-year report every row of the main table is counted
\* in exactly one reported year: each reported year appears once and the
\* counts add up to the number of rows of the table.
C9_EveryRowCounted ==
    \A e \in Logged("by_year") :
        LET report == log[e].about
        IN  /\ \A a, b \in 1..Len(report) :
                report[a].Year = report[b].Year => a = b
            /\ SumCounts(report, 1)
                 = Len(ColumnNamed(TableNamed(db, MainTable), "Year"))

\* C10: when the database file does not exist, no stage runs: no connection
\* is opened, nothing is appended to the log, no CSV file is written, and
\* the run ends with 'Database file not found' and not 'Analysis complete'.
C10_MissingDatabase ==
    ~dbExists =>
        /\ events = <<>>
        /\ conns = <<>>
        /\ log = <<>>
        /\ written = <<>>
        /\ DOMAIN files = {}
        /\ pc \in {"main", "done"}
        /\ pc = "done" =>
            /\ console[Len(console)] = "ERROR: Database file not found!"
            /\ ~Printed("Analysis complete")

C10_Witness == ~dbExists /\ pc = "done" /\ run = 2

====
